---- MODULE Spec2Model ----
(***************************************************************************)
(* Model of the market-data ETL (fetch_data.py, transform_data.py,         *)
(* processing.py) and of the Monte Carlo batch (monte_carlo.py,            *)
(* portfolio.py, run_simulation.py).                                       *)
(*                                                                         *)
(* Numbers are fixed point integers: money is in thousands of dollars,     *)
(* prices in dollars, returns, drift and volatility in basis points        *)
(* (1/10000), shares in thousandths.  NaN is a reserved integer.           *)
(***************************************************************************)
EXTENDS Integers, Sequences, FiniteSets, TLC

(* ------------------------------------------------------------------ *)
(* Bounds of the model                                                 *)
(* ------------------------------------------------------------------ *)
\* largest trial count drawn for config.NUM_SIMULATIONS (10000 in config.py)
MaxSimulations == 2
\* rows another process may commit to processed_market_data during a batch
MaxInserts == 1
\* size of the state of the pseudo random generator behind np.random
RngModulus == 4
\* bars a full series has beyond the 199 rows of warm-up
ExtraBars == 2
\* bars of a series too short for the largest window
ShortBars == 60
\* failures (provider, database) injected into the pipeline
MaxFailures == 1
\* times the fetch and transform scripts are run one after the other
MaxPipelineRuns == 2
\* clock ticks of a timestamp per calendar day
TicksPerDay == 2
\* one call of fetch_data: days in the requested range, re-adjustments of
\* the provider's prices, and bars appended before requests stop failing
\* part-way
MaxFetchDays == 3
MaxAdjustments == 1
MaxAggs == 4
\* most bars of a frame handed to a function called on its own
MaxBars == 3
\* most days processed_market_data holds of a ticker in a single call
MaxDays == 2
\* largest period handed to compute_rsi in a single call
MaxPeriod == 2

(* ------------------------------------------------------------------ *)
(* config.py                                                           *)
(* ------------------------------------------------------------------ *)
TRADING_DAYS_PER_YEAR == 252
\* np.sqrt(252) = 15.87..., in hundredths
SQRT_TRADING_DAYS_X100 == 1587

PORTFOLIO_A ==
    << [ticker |-> "AAPL", allocation |-> 125],
       [ticker |-> "AMZN", allocation |-> 125] >>

PORTFOLIO_B ==
    << [ticker |-> "XLK", allocation |-> 125],
       [ticker |-> "XLF", allocation |-> 125] >>

TIME_HORIZONS == << 10, 20 >>

TICKERS_TO_FETCH == << "AAPL", "AMZN", "XLK", "XLF" >>

Tickers == { TICKERS_TO_FETCH[i] : i \in DOMAIN TICKERS_TO_FETCH }

\* the two portfolios in the order run_all_simulations runs them
Portfolios ==
    << [type |-> "A", holdings |-> PORTFOLIO_A],
       [type |-> "B", holdings |-> PORTFOLIO_B] >>

(* ------------------------------------------------------------------ *)
(* Arithmetic helpers                                                  *)
(* ------------------------------------------------------------------ *)
\* the floating point NaN
NaN == 0 - 999999

\* f[lo] + ... + f[hi], summed by halves
RECURSIVE SumRange(_, _, _)
SumRange(f, lo, hi) ==
    IF lo > hi THEN 0
    ELSE IF lo = hi THEN f[lo]
    ELSE LET mid == (lo + hi) \div 2
         IN  SumRange(f, lo, mid) + SumRange(f, mid + 1, hi)

SumSeq(s) == SumRange(s, 1, Len(s))

RECURSIVE ISqrtIter(_, _)
ISqrtIter(x, r) ==
    LET r2 == (r + x \div r) \div 2
    IN  IF r2 >= r THEN r ELSE ISqrtIter(x, r2)

\* floor of the square root
ISqrt(x) == IF x <= 0 THEN 0 ELSE ISqrtIter(x, x)

MaxOf(S) == CHOOSE x \in S : \A y \in S : y <= x
MinOf(S) == CHOOSE x \in S : \A y \in S : x <= y

\* pandas Series.mean()
Mean(s) == IF s = << >> THEN NaN ELSE SumSeq(s) \div Len(s)

\* pandas Series.std(): sample standard deviation, NaN below two values
Std(s) ==
    IF Len(s) < 2 THEN NaN
    ELSE LET m == Mean(s)
             sq == [i \in DOMAIN s |-> (s[i] - m) * (s[i] - m)]
         IN  ISqrt(SumSeq(sq) \div (Len(s) - 1))

\* float addition, NaN absorbing
Add(a, b) == IF a = NaN \/ b = NaN THEN NaN ELSE a + b

\* np.exp on basis points, to first order and always positive:
\* exp(x) ~ 1 + x for x >= 0 and 1 / (1 - x) for x < 0
ExpBps(x) ==
    IF x >= 0 THEN 10000 + x ELSE (10000 * 10000) \div (10000 - x)

(* ------------------------------------------------------------------ *)
(* simulation/monte_carlo.py                                           *)
(* ------------------------------------------------------------------ *)
\* the rows of a table as the sequence ORDER BY date returns them
RECURSIVE OrderByDate(_)
OrderByDate(rows) ==
    IF rows = {} THEN << >>
    ELSE LET first == CHOOSE r \in rows : \A q \in rows : r.date <= q.date
         IN  << first >> \o OrderByDate(rows \ {first})

\* Series.pct_change() of the close column, in basis points
PctChange(df) ==
    [i \in DOMAIN df |->
        IF i = 1 \/ df[i].close = NaN \/ df[i - 1].close = NaN THEN NaN
        ELSE ((df[i].close - df[i - 1].close) * 10000) \div df[i - 1].close]

\* DataFrame.dropna() on the columns date, close, return
DropNaRows(df) ==
    SelectSeq(df, LAMBDA r : r.close # NaN /\ r.ret # NaN)

\* load_historical_data: raised is TRUE for the ValueError of an empty table
load_historical_data(rows) ==
    LET df == OrderByDate(rows)
    IN  IF df = << >> THEN [raised |-> TRUE, df |-> << >>]
        ELSE IF \A i \in DOMAIN df : df[i].ret = NaN
        THEN LET pc2 == PctChange(df)
                 df2 == [i \in DOMAIN df |-> [df[i] EXCEPT !.ret = pc2[i]]]
             IN  [raised |-> FALSE, df |-> DropNaRows(df2)]
        ELSE [raised |-> FALSE, df |-> df]

\* the non-NaN values of df['return'], which mean() and std() work on
ReturnsOf(df) ==
    LET present == SelectSeq(df, LAMBDA r : r.ret # NaN)
    IN  [i \in DOMAIN present |-> present[i].ret]

\* calculate_statistics: annualized mean and volatility, basis points
calculate_statistics(returns_series) ==
    LET mean_daily == Mean(returns_series)
        std_daily == Std(returns_series)
    IN  [annual_mean |-> IF mean_daily = NaN THEN NaN
                         ELSE mean_daily * TRADING_DAYS_PER_YEAR,
         annual_std |-> IF std_daily = NaN THEN NaN
                        ELSE (std_daily * SQRT_TRADING_DAYS_X100) \div 100]

\* get_starting_price: ORDER BY date DESC LIMIT 1; raised when no row
get_starting_price(rows) ==
    IF rows = {} THEN [raised |-> TRUE, price |-> NaN]
    ELSE LET last == CHOOSE r \in rows : \A q \in rows : q.date <= r.date
         IN  [raised |-> FALSE, price |-> last.close]

\* the price after years * TRADING_DAYS_PER_YEAR steps of
\* price * exp((mu - sigma^2 / 2) dt + sigma sqrt(dt) Z_t): the product of
\* the exponentials is the exponential of the sum, and the sum of the
\* shocks is sqrt(years / dt) * shock for one standard normal shock
\* mutation: a rate of one percent a year is added to the drift
GbmPriceDrifting(starting_price, years, annual_mean, annual_std, shock) ==
    IF annual_mean = NaN \/ annual_std = NaN \/ starting_price = NaN THEN NaN
    ELSE LET drift == annual_mean + 100 - ((annual_std * annual_std) \div 10000) \div 2
             exponent == drift * years + annual_std * ISqrt(years) * shock
         IN  (starting_price * ExpBps(exponent)) \div 10000
GbmPrice(starting_price, years, annual_mean, annual_std, shock) ==
    IF annual_mean = NaN \/ annual_std = NaN \/ starting_price = NaN THEN NaN
    ELSE LET drift == annual_mean - ((annual_std * annual_std) \div 10000) \div 2
             exponent == drift * years + annual_std * ISqrt(years) * shock
         IN  (starting_price * ExpBps(exponent)) \div 10000

\* simulate_single_path, given the starting price it has read
simulate_single_path(starting_price, initial_value, years, annual_mean, annual_std, shock) ==
    LET num_shares == (initial_value * 1000) \div starting_price
        price == GbmPrice(starting_price, years, annual_mean, annual_std, shock)
    IN  IF price = NaN THEN NaN ELSE (num_shares * price) \div 1000

\* ((final_value - initial_value) / initial_value) * 100
ReturnPct(final_value, initial_value) ==
    IF final_value = NaN THEN NaN
    ELSE ((final_value - initial_value) * 100) \div initial_value

\* mutation: range(0, num_simulations)
TrialRange1(n) == [i \in 1 .. n |-> i - 1]
\* range(1, num_simulations + 1)
TrialRange(n) == [i \in 1 .. n |-> i]

\* np.random: the generator's next state and the shock drawn from a state
NextRng(s) == (s * 5 + 3) % RngModulus
Shock(s) == (s % 3) - 1

(* ------------------------------------------------------------------ *)
(* simulation/portfolio.py                                             *)
(* ------------------------------------------------------------------ *)
\* results_df[results_df['simulation_number'] == sim_num]
RowsAt(results_df, sim_num) ==
    SelectSeq(results_df, LAMBDA r : r.simulation_number = sim_num)

\* the inner loop of simulate_portfolio: the sum over ticker_results of the
\* first row at sim_num, a ticker without such a row adding nothing
\* mutation: only the last ticker's value is kept (= for +=)
PortfolioFinalValueLast(ticker_results, sim_num) ==
    IF ticker_results = << >> THEN 0
    ELSE LET ticker_result == RowsAt(ticker_results[Len(ticker_results)].results, sim_num)
         IN  IF ticker_result = << >> THEN 0 ELSE ticker_result[1].final_value

RECURSIVE PortfolioFinalValue(_, _)
PortfolioFinalValue(ticker_results, sim_num) ==
    IF ticker_results = << >> THEN 0
    ELSE LET ticker_result == RowsAt(Head(ticker_results).results, sim_num)
             rest == PortfolioFinalValue(Tail(ticker_results), sim_num)
         IN  IF ticker_result = << >> THEN rest
             ELSE Add(ticker_result[1].final_value, rest)

\* sum(portfolio_dict.values())
PortfolioInitial(portfolio_dict) ==
    SumSeq([i \in DOMAIN portfolio_dict |-> portfolio_dict[i].allocation])

\* one row of portfolio_results
PortfolioRow(ticker_results, portfolio_dict, sim_num) ==
    LET portfolio_final_value == PortfolioFinalValue(ticker_results, sim_num)
    IN  [simulation_number |-> sim_num,
         final_value |-> portfolio_final_value,
         return_pct |-> ReturnPct(portfolio_final_value, PortfolioInitial(portfolio_dict))]


\* the non-NaN values of a column, ascending (pandas skips NaN)
SortedColumn(results_df, col) ==
    LET present == SelectSeq(results_df, LAMBDA r : r[col] # NaN)
    IN  SortSeq([i \in DOMAIN present |-> present[i][col]], LAMBDA a, b : a < b)

\* Series.quantile(q / 100) with linear interpolation, on sorted values
Quantile(sorted, q) ==
    IF sorted = << >> THEN NaN
    ELSE LET pos == (Len(sorted) - 1) * q
             lo == pos \div 100 + 1
             frac == pos % 100
         IN  IF lo >= Len(sorted) THEN sorted[Len(sorted)]
             ELSE sorted[lo] + ((sorted[lo + 1] - sorted[lo]) * frac) \div 100

\* calculate_summary_statistics: the stats dict in insertion order
calculate_summary_statistics(results_df) ==
    LET fv == SortedColumn(results_df, "final_value")
        rp == SortedColumn(results_df, "return_pct")
        lowest(v) == IF v = << >> THEN NaN ELSE v[1]
        highest(v) == IF v = << >> THEN NaN ELSE v[Len(v)]
    IN  << [metric_name |-> "mean", metric_value |-> Mean(fv)],
           [metric_name |-> "median", metric_value |-> Quantile(fv, 50)],
           [metric_name |-> "std", metric_value |-> Std(fv)],
           [metric_name |-> "min", metric_value |-> lowest(fv)],
           [metric_name |-> "max", metric_value |-> highest(fv)],
           [metric_name |-> "p5", metric_value |-> Quantile(fv, 5)],
           [metric_name |-> "p25", metric_value |-> Quantile(fv, 25)],
           [metric_name |-> "p75", metric_value |-> Quantile(fv, 75)],
           [metric_name |-> "p95", metric_value |-> Quantile(fv, 95)],
           [metric_name |-> "mean_return", metric_value |-> Mean(rp)],
           [metric_name |-> "median_return", metric_value |-> Quantile(rp, 50)],
           [metric_name |-> "std_return", metric_value |-> Std(rp)],
           [metric_name |-> "min_return", metric_value |-> lowest(rp)],
           [metric_name |-> "max_return", metric_value |-> highest(rp)] >>

(* ------------------------------------------------------------------ *)
(* processing.py                                                       *)
(*                                                                     *)
(* A DataFrame is [columns |-> set of names, rows |-> sequence of      *)
(* records]; every column of engineer_features is an operator of the   *)
(* frame and the row position i (1 is the first row), NaN where pandas *)
(* yields NaN.  Prices and volumes of a bar are defined; vwap may be   *)
(* NaN (NULL in raw_market_data).                                      *)
(* ------------------------------------------------------------------ *)
\* the float infinity a division by zero yields in pandas
Inf == 999999

DateColCandidates == << "date", "Date", "timestamp", "datetime", "time" >>

\* the first candidate among the columns, "" when there is none
DetectDateCol(columns) ==
    LET hits == SelectSeq(DateColCandidates, LAMBDA c : c \in columns)
    IN  IF hits = << >> THEN "" ELSE hits[1]

\* sum of the closes of rows lo .. hi
CloseSum(rows, lo, hi) ==
    SumRange([k \in lo .. hi |-> rows[k].close], lo, hi)

\* percent change of a over b, in basis points
PctOf(a, b) ==
    IF b = 0 THEN (IF a = 0 THEN NaN ELSE Inf)
    ELSE ((a - b) * 10000) \div b

\* Series.shift(k)
\* mutation: shift(-k), the close k rows later
LagAhead(rows, i, k) == IF i + k > Len(rows) THEN NaN ELSE rows[i + k].close
Lag(rows, i, k) == IF i <= k THEN NaN ELSE rows[i - k].close

\* df['close'].pct_change(k)
CloseChange(rows, i, k) ==
    IF i <= k THEN NaN ELSE PctOf(rows[i].close, rows[i - k].close)

\* df['volume'].pct_change()
VolumeChange(rows, i) ==
    IF i <= 1 THEN NaN ELSE PctOf(rows[i].volume, rows[i - 1].volume)

\* df['close'].rolling(w).mean()
RollingMean(rows, i, w) ==
    IF i < w THEN NaN ELSE CloseSum(rows, i - w + 1, i) \div w

\* df['close'].rolling(w).std()
RollingStd(rows, i, w) ==
    IF i < w THEN NaN
    ELSE Std([k \in 1 .. w |-> rows[i - w + k].close])

\* df['close'].rolling(n).mean() / df['close'], in basis points
MovingAverageRatio(rows, i, n) ==
    IF i < n THEN NaN
    ELSE (CloseSum(rows, i - n + 1, i) * 10000) \div (n * rows[i].close)

\* df['close'].pct_change().rolling(w).std()
ReturnVolatility(rows, i, w) ==
    IF i < w + 1 THEN NaN
    ELSE Std([k \in 1 .. w |-> CloseChange(rows, i - w + k, 1)])

\* the gains and the losses of delta = series.diff() up to row i
GainSum(rows, i) ==
    SumRange([k \in 2 .. i |->
                 IF rows[k].close > rows[k - 1].close
                 THEN rows[k].close - rows[k - 1].close ELSE 0], 2, i)

LossSum(rows, i) ==
    SumRange([k \in 2 .. i |->
                 IF rows[k].close < rows[k - 1].close
                 THEN rows[k - 1].close - rows[k].close ELSE 0], 2, i)

\* compute_rsi at row i.  ewm(alpha = 1 / period, min_periods = period)
\* averages every gain (loss) since the first row with positive weights, and
\* delta is NaN on the first row: the value is NaN before row period + 1;
\* avg_gain (avg_loss) is 0 exactly when no close rose (fell) so far, and
\* 0 / 0 is NaN, x / 0 is inf and 100 - 100 / (1 + inf) is 100.  Where both
\* averages are positive their ratio is taken with all weights equal.
compute_rsi(rows, i, period) ==
    IF i < period + 1 THEN NaN
    ELSE LET avg_gain == GainSum(rows, i)
             avg_loss == LossSum(rows, i)
         IN  IF avg_loss = 0 THEN (IF avg_gain = 0 THEN NaN ELSE 100)
             ELSE 100 - (100 * avg_loss) \div (avg_gain + avg_loss)

\* the columns engineer_features adds, in the order it adds them, after
\* the calendar columns (functions of the date alone, never NaN)
FeatureColumns ==
    << "high_low_range", "average_price", "volume_change", "close_lag_1",
       "close_lag_2", "ret", "return_lag_1", "rolling_mean_7", "rolling_std_7",
       "rolling_mean_30", "rolling_std_30", "ma14", "ma30", "ma50", "ma200",
       "rsi14", "rsi30", "rsi50", "roc14", "vol14", "up_day", "down_day" >>

\* the value of one added column at row i
Feature(rows, i, col) ==
    CASE col = "high_low_range" -> rows[i].high - rows[i].low
      [] col = "average_price" ->
            (rows[i].open + rows[i].high + rows[i].low + rows[i].close) \div 4
      [] col = "volume_change" -> VolumeChange(rows, i)
      [] col = "close_lag_1" -> Lag(rows, i, 1)
      [] col = "close_lag_2" -> Lag(rows, i, 2)
      [] col = "ret" -> CloseChange(rows, i, 1)
      [] col = "return_lag_1" -> IF i <= 1 THEN NaN ELSE CloseChange(rows, i - 1, 1)
      [] col = "rolling_mean_7" -> RollingMean(rows, i, 7)
      [] col = "rolling_std_7" -> RollingStd(rows, i, 7)
      [] col = "rolling_mean_30" -> RollingMean(rows, i, 30)
      [] col = "rolling_std_30" -> RollingStd(rows, i, 30)
      [] col = "ma14" -> MovingAverageRatio(rows, i, 14)
      [] col = "ma30" -> MovingAverageRatio(rows, i, 30)
      [] col = "ma50" -> MovingAverageRatio(rows, i, 50)
      [] col = "ma200" -> MovingAverageRatio(rows, i, 200)
      [] col = "rsi14" -> compute_rsi(rows, i, 14)
      [] col = "rsi30" -> compute_rsi(rows, i, 30)
      [] col = "rsi50" -> compute_rsi(rows, i, 50)
      [] col = "roc14" -> CloseChange(rows, i, 14)
      [] col = "vol14" -> ReturnVolatility(rows, i, 14)
      [] col = "up_day" -> IF rows[i].close > rows[i].open THEN 1 ELSE 0
      [] col = "down_day" -> IF rows[i].close < rows[i].open THEN 1 ELSE 0

\* the row of the engineered frame at position i, before dropna
FeatureRow(rows, i) ==
    [date |-> rows[i].date, open |-> rows[i].open, high |-> rows[i].high,
     low |-> rows[i].low, close |-> rows[i].close, volume |-> rows[i].volume,
     vwap |-> rows[i].vwap, weekday |-> rows[i].date % 7,
     added |-> [k \in DOMAIN FeatureColumns |-> Feature(rows, i, FeatureColumns[k])]]

\* the largest rolling window of engineer_features (ma200)
LargestWindow == 200

\* DataFrame.dropna() drops row i: some column of the row is NaN.  The
\* column of the largest window is looked at first, it decides most rows.
\* mutation: no row is dropped (the frame is zero-filled instead)
RowHasNaN0(rows, i) == FALSE
RowHasNaN(rows, i) ==
    \/ MovingAverageRatio(rows, i, LargestWindow) = NaN
    \/ rows[i].vwap = NaN
    \/ \E k \in DOMAIN FeatureColumns : Feature(rows, i, FeatureColumns[k]) = NaN

\* df.dropna().reset_index(drop=True): the positions that stay, in order
KeptPositions(rows) ==
    SelectSeq([i \in 1 .. Len(rows) |-> i], LAMBDA i : ~RowHasNaN(rows, i))

\* engineer_features: raised is TRUE for the ValueError of a frame without
\* a date column
engineer_features(df) ==
    LET date_col == DetectDateCol(df.columns)
    IN  IF date_col = ""
        THEN [raised |-> TRUE, columns |-> df.columns, rows |-> << >>]
        ELSE LET dated == << >> \o [i \in DOMAIN df.rows |->
                              [date |-> df.rows[i][date_col],
                               open |-> df.rows[i].open, high |-> df.rows[i].high,
                               low |-> df.rows[i].low, close |-> df.rows[i].close,
                               volume |-> df.rows[i].volume, vwap |-> df.rows[i].vwap]]
                 kept == KeptPositions(dated)
             IN  [raised |-> FALSE,
                  columns |-> df.columns \cup {"date", "weekday"} \cup
                                 {FeatureColumns[k] : k \in DOMAIN FeatureColumns},
                  rows |-> << >> \o
                           [j \in DOMAIN kept |-> FeatureRow(dated, kept[j])]]

\* df.fillna(0)
FillNa(rows) ==
    LET z(v) == IF v = NaN THEN 0 ELSE v
    IN  << >> \o [i \in DOMAIN rows |->
                     [rows[i] EXCEPT !.vwap = z(@),
                                     !.added = [k \in DOMAIN @ |-> z(@[k])]]]

(* ------------------------------------------------------------------ *)
(* State                                                               *)
(* ------------------------------------------------------------------ *)
VARIABLES
    \* the database tables the simulation reads and writes (committed rows)
    processed_market_data,  \* ticker -> set of rows, one per date
    simulation_runs,
    simulation_results,
    portfolio_results_tbl,
    simulation_summary,
    next_run_id,            \* the serial behind simulation_runs.run_id
    \* run_all_simulations
    pc,                     \* where the batch stands
    hIdx,                   \* position in TIME_HORIZONS
    pIdx,                   \* 1: portfolio A, 2: portfolio B
    run_id,                 \* portfolio_a_id / portfolio_b_id
    num_simulations,        \* config.NUM_SIMULATIONS
    error,                  \* the exception that ended the batch, or "none"
    \* simulate_portfolio
    tIdx,                   \* position in portfolio_dict.items()
    ticker_results,         \* sequence of [ticker, results], insertion order
    portfolio_results,
    \* run_monte_carlo
    stats,                  \* annual_mean, annual_std
    results,
    it,                     \* position of the for loop in its range
    starting_prices,        \* the starting_price each trial computed with
    rng,                    \* state of np.random
    inserts,                \* rows committed by the transform script meanwhile
    \* the ETL scripts fetch_data.py and transform_data.py
    raw_market_data,        \* ticker -> rows in insertion order, one per timestamp
    feed,                   \* ticker -> the series the provider holds for it
    revision,               \* how often the provider has re-adjusted its prices
    stage,                  \* "fetch", "transform", "finished", or "off"
    eIdx,                   \* position of the for loop in tickers
    total_rows,
    fetch_log,              \* per ticker of fetch_all_tickers: rows returned
    transform_log,          \* per ticker of transform_all_tickers: rows returned
    failures,               \* failures injected so far
    runs,                   \* runs of the pipeline started
    \* one call of a function on its own
    fn,                     \* the function called, "none" without a call
    arg,                    \* the arguments of the call
    arg_after,              \* the caller's argument objects after the call
    out,                    \* what the call returned or raised
    returned,               \* the call is over
    \* fetch_data, one call with its retry loop
    aggs,                   \* the bars appended so far
    current_start,          \* the date the next request starts from
    floc                    \* where the call stands, "off" without one

simVars ==
    << processed_market_data, simulation_runs, simulation_results,
       portfolio_results_tbl, simulation_summary, next_run_id, pc, hIdx, pIdx,
       run_id, num_simulations, error, tIdx, ticker_results, portfolio_results,
       stats, results, it, starting_prices, rng, inserts >>

etlVars ==
    << raw_market_data, feed, revision, stage, eIdx, total_rows, fetch_log,
       transform_log, failures, runs >>

callVars == << fn, arg, arg_after, out, returned >>

fetchVars == << aggs, current_start, floc >>

auxVars == << callVars, fetchVars >>

vars == << simVars, etlVars, auxVars >>

\* no function is called on its own
CallOff ==
    /\ fn = "none"
    /\ arg = << >>
    /\ arg_after = << >>
    /\ out = << >>
    /\ returned = FALSE

\* fetch_data's loop is not followed step by step
FetchOff ==
    /\ aggs = << >>
    /\ current_start = 0
    /\ floc = "off"

AuxOff == CallOff /\ FetchOff

\* the ETL scripts are not running
EtlOff ==
    /\ raw_market_data = [t \in Tickers |-> << >>]
    /\ feed = [t \in Tickers |-> "none"]
    /\ revision = 0
    /\ stage = "off"
    /\ eIdx = 1
    /\ total_rows = 0
    /\ fetch_log = << >>
    /\ transform_log = << >>
    /\ failures = 0
    /\ runs = 0

\* the portfolio and the ticker the batch is at
CurPortfolio == Portfolios[pIdx]
CurHoldings == CurPortfolio.holdings
CurYears == TIME_HORIZONS[hIdx]
CurTicker == CurHoldings[tIdx].ticker
CurAllocation == CurHoldings[tIdx].allocation

NoStats == [annual_mean |-> 0, annual_std |-> 0]

\* history of a ticker as transform_data.py left it: two trading days
History ==
    { [date |-> 1, close |-> 100, ret |-> 50],
      [date |-> 2, close |-> 101, ret |-> 100] }

\* seeds the generator may start from
Seeds == {0, 1}

SimInit ==
    /\ \E missing \in SUBSET Tickers :
          /\ Cardinality(missing) <= 1
          /\ processed_market_data =
                [t \in Tickers |-> IF t \in missing THEN {} ELSE History]
    /\ simulation_runs = {}
    /\ simulation_results = {}
    /\ portfolio_results_tbl = {}
    /\ simulation_summary = {}
    /\ next_run_id = 1
    /\ pc = "create_run"
    /\ hIdx = 1
    /\ pIdx = 1
    /\ run_id = 0
    /\ num_simulations \in 1 .. MaxSimulations
    /\ error = "none"
    /\ tIdx = 1
    /\ ticker_results = << >>
    /\ portfolio_results = << >>
    /\ stats = NoStats
    /\ results = << >>
    /\ it = 1
    /\ starting_prices = << >>
    /\ rng \in Seeds
    /\ inserts = 0
    /\ EtlOff
    /\ AuxOff

\* an exception nobody catches below __main__: the batch ends
Raise(e) ==
    /\ pc' = "failed"
    /\ error' = e

(* ------------------------------------------------------------------ *)
(* simulation/run_simulation.py: run_all_simulations, step by step     *)
(* ------------------------------------------------------------------ *)
\* create_simulation_run: INSERT ... RETURNING run_id, commit
CreateSimulationRun ==
    /\ pc = "create_run"
    /\ \E ok \in BOOLEAN :
          IF ok
          THEN /\ simulation_runs' = simulation_runs \cup
                      { [run_id |-> next_run_id,
                         portfolio_type |-> CurPortfolio.type,
                         time_horizon_years |-> CurYears,
                         num_simulations |-> num_simulations] }
               /\ run_id' = next_run_id
               /\ next_run_id' = next_run_id + 1
               /\ tIdx' = 1
               /\ ticker_results' = << >>
               /\ pc' = "load"
               /\ UNCHANGED error
          ELSE /\ Raise("PersistenceError")
               /\ UNCHANGED << simulation_runs, run_id, next_run_id, tIdx,
                               ticker_results >>
    /\ UNCHANGED << processed_market_data, simulation_results,
                    portfolio_results_tbl, simulation_summary, hIdx, pIdx,
                    num_simulations, portfolio_results, stats, results, it,
                    starting_prices, rng, inserts >>
    /\ UNCHANGED << etlVars, auxVars >>

\* run_monte_carlo up to its loop: load_historical_data, calculate_statistics
LoadHistoricalData ==
    /\ pc = "load"
    /\ LET h == load_historical_data(processed_market_data[CurTicker])
       IN  IF h.raised
           THEN /\ Raise("NoHistoricalData")
                /\ UNCHANGED << stats, results, it, starting_prices >>
           ELSE /\ stats' = calculate_statistics(ReturnsOf(h.df))
                /\ results' = << >>
                /\ it' = 1
                /\ starting_prices' = << >>
                /\ pc' = "trial"
                /\ UNCHANGED error
    /\ UNCHANGED << processed_market_data, simulation_runs, simulation_results,
                    portfolio_results_tbl, simulation_summary, next_run_id,
                    hIdx, pIdx, run_id, num_simulations, tIdx, ticker_results,
                    portfolio_results, rng, inserts >>
    /\ UNCHANGED << etlVars, auxVars >>

\* one pass of the for loop of run_monte_carlo: simulate_single_path reads
\* the starting price, walks the path and the result is appended
SimulateTrial ==
    /\ pc = "trial"
    /\ LET sp == get_starting_price(processed_market_data[CurTicker])
           sim_num == TrialRange(num_simulations)[it]
           final_value == simulate_single_path(sp.price, CurAllocation, CurYears,
                              stats.annual_mean, stats.annual_std, Shock(rng))
       IN  IF sp.raised
           THEN /\ Raise("NoPriceData")
                /\ UNCHANGED << results, it, starting_prices, rng >>
           ELSE /\ results' = Append(results,
                                 [simulation_number |-> sim_num,
                                  final_value |-> final_value,
                                  return_pct |-> ReturnPct(final_value, CurAllocation)])
                /\ starting_prices' = Append(starting_prices, sp.price)
                /\ rng' = NextRng(rng)
                /\ it' = it + 1
                /\ pc' = IF it < num_simulations THEN "trial" ELSE "save_ticker"
                /\ UNCHANGED error
    /\ UNCHANGED << processed_market_data, simulation_runs, simulation_results,
                    portfolio_results_tbl, simulation_summary, next_run_id,
                    hIdx, pIdx, run_id, num_simulations, tIdx, ticker_results,
                    portfolio_results, stats, inserts >>
    /\ UNCHANGED << etlVars, auxVars >>

\* the for loop over portfolio_dict.items() has another ticker after the i-th
\* mutation: the loop ends after its first ticker
MoreTickers1(i, portfolio_dict) == FALSE
MoreTickers(i, portfolio_dict) == i < Len(portfolio_dict)

\* the rows save_simulation_results inserts
\* mutation: the rows carry the id the next run will get
SimulationResultRowsNextRun(id, ticker, initial_value, results_df) ==
    { [run_id |-> id + 1, ticker |-> ticker, initial_value |-> initial_value,
       final_value |-> results_df[i].final_value,
       return_pct |-> results_df[i].return_pct,
       simulation_number |-> results_df[i].simulation_number]
      : i \in DOMAIN results_df }
SimulationResultRows(id, ticker, initial_value, results_df) ==
    { [run_id |-> id, ticker |-> ticker, initial_value |-> initial_value,
       final_value |-> results_df[i].final_value,
       return_pct |-> results_df[i].return_pct,
       simulation_number |-> results_df[i].simulation_number]
      : i \in DOMAIN results_df }

\* simulate_portfolio after run_monte_carlo returned: ticker_results[ticker]
\* is set and save_simulation_results inserts and commits, or rolls back
SaveSimulationResults ==
    /\ pc = "save_ticker"
    /\ \E ok \in BOOLEAN :
          IF ok
          THEN /\ simulation_results' = simulation_results \cup
                      SimulationResultRows(run_id, CurTicker, CurAllocation, results)
               /\ ticker_results' = Append(ticker_results,
                                        [ticker |-> CurTicker, results |-> results])
               /\ IF MoreTickers(tIdx, CurHoldings)
                  THEN /\ tIdx' = tIdx + 1
                       /\ pc' = "load"
                       /\ UNCHANGED << it, portfolio_results >>
                  ELSE /\ pc' = "aggregate"
                       /\ it' = 1
                       /\ portfolio_results' = << >>
                       /\ UNCHANGED tIdx
               /\ UNCHANGED error
          ELSE /\ Raise("PersistenceError")
               /\ UNCHANGED << simulation_results, ticker_results, tIdx, it,
                               portfolio_results >>
    /\ UNCHANGED << processed_market_data, simulation_runs,
                    portfolio_results_tbl, simulation_summary, next_run_id,
                    hIdx, pIdx, run_id, num_simulations, stats, results,
                    starting_prices, rng, inserts >>
    /\ UNCHANGED << etlVars, auxVars >>

\* one pass of the combining loop of simulate_portfolio
AggregateTrial ==
    /\ pc = "aggregate"
    /\ LET sim_num == TrialRange(num_simulations)[it]
       IN  portfolio_results' = Append(portfolio_results,
                                    PortfolioRow(ticker_results, CurHoldings, sim_num))
    /\ it' = it + 1
    /\ pc' = IF it < num_simulations THEN "aggregate" ELSE "save_portfolio"
    /\ UNCHANGED << processed_market_data, simulation_runs, simulation_results,
                    portfolio_results_tbl, simulation_summary, next_run_id,
                    hIdx, pIdx, run_id, num_simulations, error, tIdx,
                    ticker_results, stats, results, starting_prices, rng,
                    inserts >>
    /\ UNCHANGED << etlVars, auxVars >>

\* the rows save_portfolio_results inserts
PortfolioResultRows(id, portfolio_type, portfolio_results_df) ==
    { [run_id |-> id, portfolio_type |-> portfolio_type,
       final_value |-> portfolio_results_df[i].final_value,
       return_pct |-> portfolio_results_df[i].return_pct,
       simulation_number |-> portfolio_results_df[i].simulation_number]
      : i \in DOMAIN portfolio_results_df }

\* save_portfolio_results: insert and commit, or roll back and raise
SavePortfolioResults ==
    /\ pc = "save_portfolio"
    /\ \E ok \in BOOLEAN :
          IF ok
          THEN /\ portfolio_results_tbl' = portfolio_results_tbl \cup
                      PortfolioResultRows(run_id, CurPortfolio.type, portfolio_results)
               /\ pc' = "save_summary"
               /\ UNCHANGED error
          ELSE /\ Raise("PersistenceError")
               /\ UNCHANGED portfolio_results_tbl
    /\ UNCHANGED << processed_market_data, simulation_runs, simulation_results,
                    simulation_summary, next_run_id, hIdx, pIdx, run_id,
                    num_simulations, tIdx, ticker_results, portfolio_results,
                    stats, results, it, starting_prices, rng, inserts >>
    /\ UNCHANGED << etlVars, auxVars >>

\* the rows save_summary_statistics inserts
SummaryRows(id, portfolio_type, stats_dict) ==
    { [run_id |-> id, portfolio_type |-> portfolio_type,
       metric_name |-> stats_dict[i].metric_name,
       metric_value |-> stats_dict[i].metric_value]
      : i \in DOMAIN stats_dict }

\* calculate_summary_statistics and save_summary_statistics, then the next
\* portfolio of the horizon, the next horizon, or the end of the batch
SaveSummaryStatistics ==
    /\ pc = "save_summary"
    /\ \E ok \in BOOLEAN :
          IF ok
          THEN /\ simulation_summary' = simulation_summary \cup
                      SummaryRows(run_id, CurPortfolio.type,
                                  calculate_summary_statistics(portfolio_results))
               /\ IF pIdx < Len(Portfolios)
                  THEN /\ pIdx' = pIdx + 1
                       /\ pc' = "create_run"
                       /\ UNCHANGED hIdx
                  ELSE IF hIdx < Len(TIME_HORIZONS)
                  THEN /\ hIdx' = hIdx + 1
                       /\ pIdx' = 1
                       /\ pc' = "create_run"
                  ELSE /\ pc' = "done"
                       /\ UNCHANGED << hIdx, pIdx >>
               /\ UNCHANGED error
          ELSE /\ Raise("PersistenceError")
               /\ UNCHANGED << simulation_summary, hIdx, pIdx >>
    /\ UNCHANGED << processed_market_data, simulation_runs, simulation_results,
                    portfolio_results_tbl, next_run_id, run_id, num_simulations,
                    tIdx, ticker_results, portfolio_results, stats, results, it,
                    starting_prices, rng, inserts >>
    /\ UNCHANGED << etlVars, auxVars >>

\* the transform script, run meanwhile on the same database, commits the
\* next trading day of a ticker (save_processed_data)
ConcurrentInsert ==
    /\ pc \notin {"done", "failed"}
    /\ inserts < MaxInserts
    /\ \E t \in Tickers :
          LET rows == processed_market_data[t]
              last == get_starting_price(rows)
              day == IF rows = {} THEN 1 ELSE MaxOf({r.date : r \in rows}) + 1
              close == IF rows = {} THEN 100 ELSE last.price + 10
              ret == IF rows = {} THEN 0
                     ELSE ((close - last.price) * 10000) \div last.price
          IN  processed_market_data' =
                 [processed_market_data EXCEPT ![t] =
                     rows \cup {[date |-> day, close |-> close, ret |-> ret]}]
    /\ inserts' = inserts + 1
    /\ UNCHANGED << simulation_runs, simulation_results, portfolio_results_tbl,
                    simulation_summary, next_run_id, pc, hIdx, pIdx, run_id,
                    num_simulations, error, tIdx, ticker_results,
                    portfolio_results, stats, results, it, starting_prices, rng >>
    /\ UNCHANGED << etlVars, auxVars >>

SimNext ==
    \/ CreateSimulationRun
    \/ LoadHistoricalData
    \/ SimulateTrial
    \/ SaveSimulationResults
    \/ AggregateTrial
    \/ SavePortfolioResults
    \/ SaveSummaryStatistics
    \/ ConcurrentInsert

(* ------------------------------------------------------------------ *)
(* etl/fetch_data.py and etl/transform_data.py                         *)
(* ------------------------------------------------------------------ *)
\* the series the provider may hold for a ticker: a full one with moving
\* prices, a full one with a constant price, a full one whose last bar has
\* no vwap, one shorter than the largest window, and none
FeedKinds == {"normal", "flat", "novwap", "short", "empty"}

SeriesLength(kind) ==
    CASE kind = "empty" -> 0
      [] kind = "short" -> ShortBars
      [] OTHER -> LargestWindow - 1 + ExtraBars

\* the i-th daily bar of a series, prices re-adjusted rev times
ProviderBar(kind, i, rev) ==
    LET close == IF kind \in {"flat", "short"} THEN 100 + rev
                 ELSE 100 + (i % 2) + rev
    IN  [timestamp |-> i * TicksPerDay, open |-> 100,
         high |-> (IF close > 100 THEN close ELSE 100) + 1,
         low |-> (IF close < 100 THEN close ELSE 100) - 1,
         close |-> close, volume |-> 1000 + i,
         vwap |-> IF kind = "novwap" /\ i = SeriesLength(kind) THEN NaN ELSE close]

\* what client.list_aggs yields over the whole range, sort = asc
fetch_data(kind, rev) ==
    << >> \o [i \in 1 .. SeriesLength(kind) |-> ProviderBar(kind, i, rev)]

\* the rows of a sequence that are the first with their key, in order
\* (all of them when the keys are distinct)
FirstPerKey(rows, key) ==
    IF Cardinality({rows[i][key] : i \in DOMAIN rows}) = Len(rows) THEN rows
    ELSE LET pos == SelectSeq([i \in DOMAIN rows |-> i],
                       LAMBDA i : \A j \in 1 .. i - 1 : rows[j][key] # rows[i][key])
         IN  [n \in DOMAIN pos |-> rows[pos[n]]]

\* the rows of a sequence that are the last with their key
LastPerKey(rows, key) ==
    IF Cardinality({rows[i][key] : i \in DOMAIN rows}) = Len(rows)
    THEN { rows[i] : i \in DOMAIN rows }
    ELSE { rows[i] : i \in {i \in DOMAIN rows :
                         \A j \in i + 1 .. Len(rows) : rows[j][key] # rows[i][key]} }

\* mutation: no drop_duplicates, every appended bar is kept
convertKeepingAll(bars) ==
    SortSeq(bars, LAMBDA a, b : a.timestamp < b.timestamp)

\* convert: drop_duplicates(subset = ["timestamp"], keep = "first"), then
\* one row per timestamp, ascending
convert(bars) ==
    SortSeq(FirstPerKey(bars, "timestamp"),
            LAMBDA a, b : a.timestamp < b.timestamp)

\* ON CONFLICT ... DO NOTHING: the stored row stays
\* mutation: DO UPDATE, the offered row replaces the stored one
ConflictKeeps1(stored, offered) == offered
ConflictKeeps(stored, offered) == stored

\* executemany of INSERT ... ON CONFLICT (ticker, key) on a table kept in
\* insertion order, one statement per offered row: a row whose key the
\* table holds meets the conflict rule, the others are appended (the first
\* of those that share a key)
InsertRows(table, rows, key) ==
    LET keys == {table[j][key] : j \in DOMAIN table}
        offered == {rows[i][key] : i \in DOMAIN rows}
        fresh == SelectSeq(FirstPerKey(rows, key), LAMBDA r : r[key] \notin keys)
        lasts == LastPerKey(rows, key)
        last(k) == CHOOSE r \in lasts : r[key] = k
    IN  [j \in DOMAIN table |->
            IF table[j][key] \in offered
            THEN ConflictKeeps(table[j], last(table[j][key]))
            ELSE table[j]] \o
        [n \in DOMAIN fresh |->
            ConflictKeeps(fresh[n], last(fresh[n][key]))]

\* the same on a table kept as a set of rows
InsertRowSet(table, rows, key) ==
    LET keys == {r[key] : r \in table}
        offered == {rows[i][key] : i \in DOMAIN rows}
        fresh == SelectSeq(FirstPerKey(rows, key), LAMBDA r : r[key] \notin keys)
        lasts == LastPerKey(rows, key)
        last(k) == CHOOSE r \in lasts : r[key] = k
    IN  { IF r[key] \in offered THEN ConflictKeeps(r, last(r[key])) ELSE r
          : r \in table } \cup
        { ConflictKeeps(fresh[n], last(fresh[n][key])) : n \in DOMAIN fresh }

\* save_to_database on success: the table afterwards
save_to_database(table, df) ==
    IF df = << >> THEN table
    ELSE InsertRows(table, df, "timestamp")

\* load_raw_data: ORDER BY timestamp, and timestamp renamed to date
load_raw_data(table) ==
    LET ordered == SortSeq(table, LAMBDA a, b : a.timestamp < b.timestamp)
    IN  IF ordered = << >>
        THEN [columns |-> {"ticker", "timestamp", "open", "high", "low",
                           "close", "volume", "vwap"},
              rows |-> << >>]
        ELSE [columns |-> {"ticker", "open", "high", "low", "close", "volume",
                           "vwap", "date"},
              rows |-> << >> \o [i \in DOMAIN ordered |->
                           [date |-> ordered[i].timestamp,
                            open |-> ordered[i].open, high |-> ordered[i].high,
                            low |-> ordered[i].low, close |-> ordered[i].close,
                            volume |-> ordered[i].volume, vwap |-> ordered[i].vwap]]]

\* Timestamp.date()
ToDate(ts) == ts \div TicksPerDay

\* the tuple save_processed_data builds of a row; ret is the return column
ProcessedRow(row) ==
    [date |-> ToDate(row.date), open |-> row.open, high |-> row.high,
     low |-> row.low, close |-> row.close, volume |-> row.volume,
     vwap |-> row.vwap, weekday |-> row.weekday, ret |-> row.added[6],
     added |-> row.added]

\* save_processed_data on success: the table afterwards
save_processed_data(table, rows) ==
    IF rows = << >> THEN table
    ELSE LET data == << >> \o [i \in DOMAIN rows |-> ProcessedRow(rows[i])]
         IN  InsertRowSet(table, data, "date")

\* the position of the for loop over tickers after the i-th ticker, which
\* failed or not: both loops go on (fetch_ticker_to_db returns 0,
\* transform_all_tickers catches and continues)
\* mutation: a failure ends the loop
AfterTicker1(i, failed) == IF failed THEN Len(TICKERS_TO_FETCH) + 1 ELSE i + 1
AfterTicker(i, failed) == i + 1

SimOff ==
    /\ simulation_runs = {}
    /\ simulation_results = {}
    /\ portfolio_results_tbl = {}
    /\ simulation_summary = {}
    /\ next_run_id = 1
    /\ pc = "off"
    /\ hIdx = 1
    /\ pIdx = 1
    /\ run_id = 0
    /\ num_simulations = 1
    /\ error = "none"
    /\ tIdx = 1
    /\ ticker_results = << >>
    /\ portfolio_results = << >>
    /\ stats = NoStats
    /\ results = << >>
    /\ it = 1
    /\ starting_prices = << >>
    /\ rng = 0
    /\ inserts = 0

\* empty tables, a provider with a full moving series for every ticker but
\* at most one, and fetch_all_tickers about to start
EtlStart ==
    /\ SimOff
    /\ AuxOff
    /\ processed_market_data = [t \in Tickers |-> {}]
    /\ raw_market_data = [t \in Tickers |-> << >>]
    /\ \E odd \in Tickers : \E kind \in FeedKinds :
          feed = [t \in Tickers |-> IF t = odd THEN kind ELSE "normal"]
    /\ revision = 0
    /\ stage = "fetch"
    /\ eIdx = 1
    /\ total_rows = 0
    /\ fetch_log = << >>
    /\ transform_log = << >>
    /\ runs = 1

\* one run of the pipeline in which calls may fail
EtlInit ==
    /\ EtlStart
    /\ failures = 0

\* runs of the pipeline in which no call fails
RerunInit ==
    /\ EtlStart
    /\ failures = MaxFailures

\* fetch_ticker_to_db without a failure: the frame convert returns, the
\* table afterwards and the rowcount returned
fetch_ticker_to_db(series, table) ==
    LET df == convert(series)
        saved == save_to_database(table, df)
    IN  [df |-> df, table |-> saved, rows |-> Len(saved) - Len(table)]

\* transform_ticker without a failure of the database: the frame loaded,
\* the frame engineered and filled, whether engineer_features raised, the
\* table afterwards and the rowcount returned (0 for an empty raw frame)
transform_ticker(raw, table) ==
    LET df == load_raw_data(raw)
        ef == IF df.rows = << >>
              THEN [raised |-> FALSE, columns |-> df.columns, rows |-> << >>]
              ELSE engineer_features(df)
        filled == FillNa(ef.rows)
        saved == IF ef.raised THEN table ELSE save_processed_data(table, filled)
    IN  [bars |-> Len(df.rows), raised |-> ef.raised, features |-> Len(filled),
         table |-> saved, rows |-> Cardinality(saved) - Cardinality(table)]

\* fetch_all_tickers, one pass of its loop: fetch_ticker_to_db fetches,
\* converts and saves, and returns 0 on any exception (the failed save is
\* rolled back)
FetchTickerToDb ==
    /\ stage = "fetch"
    /\ \E call \in { fetch_ticker_to_db(fetch_data(feed[TICKERS_TO_FETCH[eIdx]], revision),
                                        raw_market_data[TICKERS_TO_FETCH[eIdx]]) } :
       \E outcome \in {"ok", "fetch_error", "save_error"} :
          LET t == TICKERS_TO_FETCH[eIdx]
              rows == IF outcome = "ok" THEN call.rows ELSE 0
              next == AfterTicker(eIdx, outcome # "ok")
          IN  /\ outcome # "ok" => failures < MaxFailures
              /\ outcome = "save_error" => call.df # << >>
              /\ raw_market_data' =
                    [raw_market_data EXCEPT
                        ![t] = IF outcome = "ok" THEN call.table ELSE @]
              /\ failures' = IF outcome = "ok" THEN failures ELSE failures + 1
              /\ fetch_log' = Append(fetch_log,
                                 [ticker |-> t, rows |-> rows, outcome |-> outcome])
              /\ IF next > Len(TICKERS_TO_FETCH)
                 THEN /\ stage' = "transform"
                      /\ eIdx' = 1
                      /\ total_rows' = 0
                 ELSE /\ eIdx' = next
                      /\ total_rows' = total_rows + rows
                      /\ UNCHANGED stage
    /\ UNCHANGED << simVars, auxVars, feed, revision, transform_log, runs >>

\* transform_all_tickers, one pass of its loop: transform_ticker loads,
\* engineers, fills and saves; an exception is caught and the loop
\* continues without adding to total_rows (the failed save is rolled back)
TransformTicker ==
    /\ stage = "transform"
    /\ \E call \in { transform_ticker(raw_market_data[TICKERS_TO_FETCH[eIdx]],
                                      processed_market_data[TICKERS_TO_FETCH[eIdx]]) } :
       \E outcome \in {"ok", "save_error"} :
          LET t == TICKERS_TO_FETCH[eIdx]
              failed == call.raised \/ outcome = "save_error"
              rows == IF failed THEN 0 ELSE call.rows
              next == AfterTicker(eIdx, failed)
          IN  /\ outcome # "ok" => failures < MaxFailures
              /\ outcome = "save_error" => (~call.raised /\ call.features > 0)
              /\ processed_market_data' =
                    [processed_market_data EXCEPT
                        ![t] = IF failed THEN @ ELSE call.table]
              /\ failures' = IF outcome = "ok" THEN failures ELSE failures + 1
              /\ transform_log' = Append(transform_log,
                                     [ticker |-> t, rows |-> rows,
                                      outcome |-> IF call.raised THEN "error" ELSE outcome,
                                      bars |-> call.bars,
                                      features |-> call.features])
              /\ IF next > Len(TICKERS_TO_FETCH)
                 THEN /\ stage' = "finished"
                      /\ eIdx' = 1
                 ELSE /\ eIdx' = next
                      /\ UNCHANGED stage
              /\ total_rows' = total_rows + rows
    /\ UNCHANGED << simulation_runs, simulation_results, portfolio_results_tbl,
                    simulation_summary, next_run_id, pc, hIdx, pIdx, run_id,
                    num_simulations, error, tIdx, ticker_results,
                    portfolio_results, stats, results, it, starting_prices, rng,
                    inserts >>
    /\ UNCHANGED << raw_market_data, feed, revision, fetch_log, runs >>
    /\ UNCHANGED auxVars

\* both scripts are run again, the provider having re-adjusted its prices
\* or not
RunPipelineAgain ==
    /\ stage = "finished"
    /\ runs < MaxPipelineRuns
    /\ \E adjusted \in BOOLEAN :
          revision' = IF adjusted THEN revision + 1 ELSE revision
    /\ stage' = "fetch"
    /\ eIdx' = 1
    /\ total_rows' = 0
    /\ fetch_log' = << >>
    /\ transform_log' = << >>
    /\ runs' = runs + 1
    /\ UNCHANGED << simVars, auxVars, raw_market_data, feed, failures >>

EtlNext ==
    \/ FetchTickerToDb
    \/ TransformTicker

\* fetch_data.py, then transform_data.py, once, with failing calls
SpecETL == EtlInit /\ [][EtlNext]_vars

RerunNext ==
    \/ FetchTickerToDb
    \/ TransformTicker
    \/ RunPipelineAgain

\* the two scripts run again and again over the same tables
SpecRerun == RerunInit /\ [][RerunNext]_vars

(* ------------------------------------------------------------------ *)
(* Functions called on their own                                       *)
(* ------------------------------------------------------------------ *)
\* closes of the bars of a small frame
CallCloses == {100, 101}

\* the close columns of the frames of at most MaxBars bars
CloseSeqs == UNION { [1 .. n -> CallCloses] : n \in 0 .. MaxBars }

\* the name of the date column of a frame, "none" for a frame without one
DateColumns == {"date", "timestamp", "none"}

PriceColumns == {"open", "high", "low", "close", "volume", "vwap"}

\* a frame of daily bars with the given closes
MakeFrame(dc, closes) ==
    LET bar(i) == [open |-> 100, high |-> 102, low |-> 99, close |-> closes[i],
                   volume |-> 1000 + i, vwap |-> closes[i]]
    IN  [columns |-> PriceColumns \cup (IF dc = "none" THEN {} ELSE {dc}),
         rows |-> << >> \o [i \in DOMAIN closes |->
                     CASE dc = "date" -> bar(i) @@ [date |-> i * TicksPerDay]
                       [] dc = "timestamp" -> bar(i) @@ [timestamp |-> i * TicksPerDay]
                       [] OTHER -> bar(i)]]

\* frames as transform_ticker loads them: the full series of the provider,
\* and the moving one with another last close
LongFrames ==
    LET frame(kind) == load_raw_data(convert(fetch_data(kind, 0)))
        moving == frame("normal")
    IN  { frame(kind) : kind \in {"normal", "flat", "novwap"} } \cup
        { [moving EXCEPT !.rows[Len(moving.rows)].close = @ + 5] }

FrameInputs ==
    { MakeFrame(dc, closes) : dc \in DateColumns, closes \in CloseSeqs } \cup
    LongFrames

\* the rows of a frame with its date column named date
DatedRows(df) ==
    LET date_col == DetectDateCol(df.columns)
    IN  << >> \o [i \in DOMAIN df.rows |->
                    [date |-> df.rows[i][date_col],
                     open |-> df.rows[i].open, high |-> df.rows[i].high,
                     low |-> df.rows[i].low, close |-> df.rows[i].close,
                     volume |-> df.rows[i].volume, vwap |-> df.rows[i].vwap]]

\* the frame object the caller passed to engineer_features, after the call:
\* every df[...] = ... assigns a column of that object, only the result of
\* dropna() is a new frame; nothing is assigned before the ValueError
InputAfterEngineerFeatures(df) ==
    LET date_col == DetectDateCol(df.columns)
        dated == << >> \o [i \in DOMAIN df.rows |->
                    [date |-> df.rows[i][date_col],
                     open |-> df.rows[i].open, high |-> df.rows[i].high,
                     low |-> df.rows[i].low, close |-> df.rows[i].close,
                     volume |-> df.rows[i].volume, vwap |-> df.rows[i].vwap]]
    IN  IF date_col = "" THEN df
        ELSE [columns |-> df.columns \cup {"date", "weekday"} \cup
                             {FeatureColumns[k] : k \in DOMAIN FeatureColumns},
              rows |-> << >> \o [i \in DOMAIN df.rows |->
                          df.rows[i] @@
                          [date |-> dated[i].date, weekday |-> dated[i].date % 7,
                           added |-> [k \in DOMAIN FeatureColumns |->
                                         Feature(dated, i, FeatureColumns[k])]]]]

\* the rows processed_market_data may hold for a ticker: at most one per
\* day of the first MaxDays days, the return column NULL or not
StoredRows ==
    [date : 1 .. MaxDays, close : CallCloses, ret : {NaN, 0, 50}]

TableInputs ==
    { rows \in SUBSET StoredRows :
         \A r, q \in rows : r.date = q.date => r = q }

\* the arguments of simulate_single_path and the shock np.random yields
PathInputs ==
    [starting_price : {100, 101, 111},
     initial_value : {PORTFOLIO_A[1].allocation},
     years : {TIME_HORIZONS[h] : h \in DOMAIN TIME_HORIZONS},
     annual_mean : {0, 18900},
     annual_std : {0, 555},
     shock : {Shock(r) : r \in 0 .. RngModulus - 1}]

\* the calls made: a function and its arguments
CallInputs ==
    { [fn |-> "engineer_features", arg |-> df] : df \in FrameInputs } \cup
    { [fn |-> "load_historical_data", arg |-> rows] : rows \in TableInputs } \cup
    { [fn |-> "compute_rsi", arg |-> [series |-> closes, period |-> p]] :
         closes \in CloseSeqs, p \in 1 .. MaxPeriod } \cup
    { [fn |-> "simulate_single_path", arg |-> a] : a \in PathInputs }

CallInit ==
    /\ SimOff
    /\ processed_market_data = [t \in Tickers |-> {}]
    /\ EtlOff
    /\ \E c \in CallInputs :
          /\ fn = c.fn
          /\ arg = c.arg
          /\ arg_after = c.arg
    /\ out = << >>
    /\ returned = FALSE
    /\ FetchOff

\* df = engineer_features(df)
CallEngineerFeatures ==
    /\ fn = "engineer_features"
    /\ ~returned
    /\ out' = engineer_features(arg)
    /\ arg_after' = InputAfterEngineerFeatures(arg)
    /\ returned' = TRUE
    /\ UNCHANGED << simVars, etlVars, fetchVars, fn, arg >>

\* df = load_historical_data(ticker, db_conn)
CallLoadHistoricalData ==
    /\ fn = "load_historical_data"
    /\ ~returned
    /\ out' = load_historical_data(arg)
    /\ returned' = TRUE
    /\ UNCHANGED << simVars, etlVars, fetchVars, fn, arg, arg_after >>

\* a close column as the rows of a frame
SeriesRows(series) == << >> \o [i \in DOMAIN series |-> [close |-> series[i]]]

\* rsi = compute_rsi(series, period)
CallComputeRsi ==
    /\ fn = "compute_rsi"
    /\ ~returned
    /\ out' = << >> \o [i \in DOMAIN arg.series |->
                           compute_rsi(SeriesRows(arg.series), i, arg.period)]
    /\ returned' = TRUE
    /\ UNCHANGED << simVars, etlVars, fetchVars, fn, arg, arg_after >>

\* one pass of the for loop of run_monte_carlo: simulate_single_path and
\* return_pct; price is the price after the last step of the path
CallSimulateSinglePath ==
    /\ fn = "simulate_single_path"
    /\ ~returned
    /\ LET final_value ==
              simulate_single_path(arg.starting_price, arg.initial_value,
                                   arg.years, arg.annual_mean, arg.annual_std,
                                   arg.shock)
       IN  out' = [price |-> GbmPrice(arg.starting_price, arg.years,
                                      arg.annual_mean, arg.annual_std, arg.shock),
                   final_value |-> final_value,
                   return_pct |-> ReturnPct(final_value, arg.initial_value)]
    /\ returned' = TRUE
    /\ UNCHANGED << simVars, etlVars, fetchVars, fn, arg, arg_after >>

CallNext ==
    \/ CallEngineerFeatures
    \/ CallSimulateSinglePath
    \/ CallComputeRsi
    \/ CallLoadHistoricalData

\* one call of one function
SpecCalls == CallInit /\ [][CallNext]_vars

(* ------------------------------------------------------------------ *)
(* One call of fetch_data followed step by step, then convert          *)
(* ------------------------------------------------------------------ *)
\* what client.list_aggs yields for the range from_date .. to_date when
\* nothing fails: the daily bars of the range, sort = asc, prices as
\* adjusted at the time of the request
list_aggs(kind, from_date, to_date, rev) ==
    LET hi == IF to_date < SeriesLength(kind) THEN to_date ELSE SeriesLength(kind)
    IN  IF hi < from_date THEN << >>
        ELSE << >> \o [n \in 1 .. hi - from_date + 1 |->
                          ProviderBar(kind, from_date + n - 1, rev)]

\* fetch_data(client, ticker, start_date, end_date), start_date <= end_date
\* as fetch_ticker_to_db calls it
FetchInputs ==
    { a \in [kind : {"normal", "empty"}, start_date : 1 .. MaxFetchDays,
             end_date : 1 .. MaxFetchDays] : a.start_date <= a.end_date }

FetchInit ==
    /\ SimOff
    /\ processed_market_data = [t \in Tickers |-> {}]
    /\ EtlOff
    /\ fn = "fetch_data"
    /\ arg \in FetchInputs
    /\ arg_after = << >>
    /\ out = << >>
    /\ returned = FALSE
    /\ aggs = << >>
    /\ current_start = arg.start_date
    /\ floc = "try"

\* the while test fails, or the for loop over list_aggs runs to its end
\* and the break is taken: return aggs
ListAggsCompletes ==
    /\ floc = "try"
    /\ IF current_start > arg.end_date THEN aggs' = aggs
       ELSE \E rev \in 0 .. MaxAdjustments :
               aggs' = aggs \o list_aggs(arg.kind, current_start, arg.end_date, rev)
    /\ floc' = "returned"
    /\ UNCHANGED << simVars, etlVars, callVars, current_start >>

\* list_aggs raises, at the request or between two pages, after k bars
\* were appended
ListAggsFails ==
    /\ floc = "try"
    /\ current_start <= arg.end_date
    /\ \E rev \in 0 .. MaxAdjustments :
          \E page \in { list_aggs(arg.kind, current_start, arg.end_date, rev) } :
             \E k \in 0 .. Len(page) :
                /\ k = 0 \/ Len(aggs) + k <= MaxAggs
                /\ aggs' = aggs \o SubSeq(page, 1, k)
    /\ floc' = "except"
    /\ UNCHANGED << simVars, etlVars, callVars, current_start >>

\* except: if not aggs: raise e
ReRaise ==
    /\ floc = "except"
    /\ aggs = << >>
    /\ floc' = "raised"
    /\ UNCHANGED << simVars, etlVars, callVars, aggs, current_start >>

\* except: last_date of aggs[-1], sleep, current_start = last_date, and
\* back to the while test
ResumeFromLastBar ==
    /\ floc = "except"
    /\ aggs # << >>
    /\ current_start' = ToDate(aggs[Len(aggs)].timestamp)
    /\ floc' = "try"
    /\ UNCHANGED << simVars, etlVars, callVars, aggs >>

\* df = convert(bars) in fetch_ticker_to_db
ConvertBars ==
    /\ floc = "returned"
    /\ out' = convert(aggs)
    /\ returned' = TRUE
    /\ floc' = "converted"
    /\ UNCHANGED << simVars, etlVars, fn, arg, arg_after, aggs, current_start >>

FetchNext ==
    \/ ListAggsCompletes
    \/ ListAggsFails
    \/ ReRaise
    \/ ResumeFromLastBar
    \/ ConvertBars

SpecFetch == FetchInit /\ [][FetchNext]_vars

\* the interpreter goes on executing the call: a step that can be taken
\* is taken (the sleep ends); nothing obliges the provider to answer
FairSpecFetch == SpecFetch /\ WF_vars(FetchNext)

Init == SimInit
Next == SimNext
Spec == Init /\ [][Next]_vars

(* ================================================================== *)
(* Properties of the simulation batch (specification Spec)             *)
(* ================================================================== *)
RECURSIVE PlainSum(_)
PlainSum(rows) ==
    IF rows = {} THEN 0
    ELSE LET r == CHOOSE x \in rows : TRUE
         IN  r.final_value + PlainSum(rows \ {r})

\* the float sum of the final values of a set of rows: NaN if one is NaN
SumFinalValues(rows) ==
    IF \E r \in rows : r.final_value = NaN THEN NaN ELSE PlainSum(rows)

\* the float sum of a sequence of values
FloatSum(s) ==
    IF \E i \in DOMAIN s : s[i] = NaN THEN NaN ELSE SumSeq(s)

\* the final values the tickers of the portfolio being combined hold at
\* trial index k, one per ticker that has a result at k
TickerValuesAt(k) ==
    [i \in DOMAIN ticker_results |->
        IF \E j \in DOMAIN ticker_results[i].results :
              ticker_results[i].results[j].simulation_number = k
        THEN LET j == CHOOSE j \in DOMAIN ticker_results[i].results :
                        ticker_results[i].results[j].simulation_number = k
             IN  ticker_results[i].results[j].final_value
        ELSE 0]

Combining == pc \in {"aggregate", "save_portfolio", "save_summary"}

\* C1: every portfolio result at trial index k holds the sum of the
\* final values its tickers have at k (0 for a ticker without one), and
\* return_pct = (final_value - sum of allocations) / sum of allocations * 100;
\* the same holds of the stored rows, joined on run id and trial index.
C1_PortfolioValueIsSumOfTickers ==
    /\ Combining =>
          \A n \in DOMAIN portfolio_results :
             LET row == portfolio_results[n]
                 total == SumSeq([i \in DOMAIN CurHoldings |-> CurHoldings[i].allocation])
             IN  /\ row.final_value = FloatSum(TickerValuesAt(row.simulation_number))
                 /\ row.return_pct =
                       IF row.final_value = NaN THEN NaN
                       ELSE ((row.final_value - total) * 100) \div total
    /\ \A p \in portfolio_results_tbl :
          p.final_value =
             SumFinalValues({r \in simulation_results :
                                /\ r.run_id = p.run_id
                                /\ r.simulation_number = p.simulation_number})

C1_Witness ==
    /\ pc = "save_summary"
    /\ Len(ticker_results) = 2
    /\ \E p \in portfolio_results_tbl :
          /\ p.run_id = run_id
          /\ \A i \in DOMAIN ticker_results :
                /\ ticker_results[i].results[1].final_value > 0
                /\ p.final_value > ticker_results[i].results[1].final_value

\* the tickers of a portfolio that have history in processed_market_data
\* all have their num_simulations results stored under a run of (p, y)
SimulatedAndPersisted(p, y) ==
    \E r \in simulation_runs :
       /\ r.portfolio_type = Portfolios[p].type
       /\ r.time_horizon_years = TIME_HORIZONS[y]
       /\ \A i \in DOMAIN Portfolios[p].holdings :
             LET t == Portfolios[p].holdings[i].ticker
             IN  processed_market_data[t] # {} =>
                    Cardinality({x \in simulation_results :
                                    x.run_id = r.run_id /\ x.ticker = t})
                       = num_simulations

\* C2: when a ticker's simulation fails for want of history or of a
\* starting price, the batch still simulates and stores every other
\* ticker, portfolio and horizon.
C2_FailedTickerAbortsOnlyItself ==
    (pc = "failed" /\ error \in {"NoHistoricalData", "NoPriceData"}) =>
       \A p \in DOMAIN Portfolios : \A y \in DOMAIN TIME_HORIZONS :
          SimulatedAndPersisted(p, y)

\* the rows of every table that carry run id
RunComplete(r) ==
    LET holdings == (CHOOSE p \in {Portfolios[i] : i \in DOMAIN Portfolios} :
                        p.type = r.portfolio_type).holdings
    IN  /\ \A i \in DOMAIN holdings :
              Cardinality({x \in simulation_results :
                              x.run_id = r.run_id /\ x.ticker = holdings[i].ticker})
                 = r.num_simulations
        /\ Cardinality({x \in portfolio_results_tbl : x.run_id = r.run_id})
              = r.num_simulations
        /\ {x \in simulation_summary : x.run_id = r.run_id} # {}

\* C3: after a write of a simulation run has failed, the store holds
\* only whole runs: no run record without all of its per-ticker results,
\* portfolio results and summary statistics.
C3_RunAllOrNothing ==
    (pc = "failed" /\ error = "PersistenceError") =>
       \A r \in simulation_runs : RunComplete(r)

SimNumbers(df) == {df[i].simulation_number : i \in DOMAIN df}

\* C7: the simulation numbers run_monte_carlo returns for a ticker, and
\* those simulate_portfolio returns for a portfolio, are exactly
\* 1 .. num_simulations, each once.
C7_TrialIndicesAreOneToN ==
    /\ pc = "save_ticker" =>
          /\ Len(results) = num_simulations
          /\ SimNumbers(results) = 1 .. num_simulations
    /\ pc \in {"save_portfolio", "save_summary"} =>
          /\ Len(portfolio_results) = num_simulations
          /\ SimNumbers(portfolio_results) = 1 .. num_simulations

C7_Witness ==
    /\ pc = "save_summary"
    /\ num_simulations = MaxSimulations
    /\ Len(portfolio_results) = MaxSimulations
    /\ Len(ticker_results[1].results) = MaxSimulations

\* C8: within one run of run_monte_carlo every trial computes with the
\* same starting price, whatever is committed to processed_market_data
\* meanwhile.
C8_StartingPriceFixedInRun ==
    \A i, j \in DOMAIN starting_prices : starting_prices[i] = starting_prices[j]

\* C9: no per-trial portfolio sum exists before every ticker of the
\* portfolio has all of its num_simulations results.
C9_AggregationAfterAllTickers ==
    Combining =>
       \A i \in DOMAIN CurHoldings :
          \E e \in DOMAIN ticker_results :
             /\ ticker_results[e].ticker = CurHoldings[i].ticker
             /\ Len(ticker_results[e].results) = num_simulations

C9_Witness ==
    /\ pc = "aggregate"
    /\ Len(portfolio_results) >= 1
    /\ Len(ticker_results) = Len(CurHoldings)

\* a <= b on floats: false when one of them is NaN
FloatLeq(a, b) == a # NaN /\ b # NaN /\ a <= b

\* the value save_summary_statistics stored of a metric of a run
StoredMetric(id, name) ==
    LET row == CHOOSE r \in simulation_summary :
                  r.run_id = id /\ r.metric_name = name
    IN  row.metric_value

\* C15: the final_value statistics stored of a run are in the order
\* min <= p5 <= p25 <= median <= p75 <= p95 <= max.
C15_PercentilesOrdered ==
    \A id \in {r.run_id : r \in simulation_summary} :
       /\ FloatLeq(StoredMetric(id, "min"), StoredMetric(id, "p5"))
       /\ FloatLeq(StoredMetric(id, "p5"), StoredMetric(id, "p25"))
       /\ FloatLeq(StoredMetric(id, "p25"), StoredMetric(id, "median"))
       /\ FloatLeq(StoredMetric(id, "median"), StoredMetric(id, "p75"))
       /\ FloatLeq(StoredMetric(id, "p75"), StoredMetric(id, "p95"))
       /\ FloatLeq(StoredMetric(id, "p95"), StoredMetric(id, "max"))

\* the run ids the rows of a table carry
RunIdsOf(table) == {x.run_id : x \in table}

\* the rows of the three result tables
ResultTables == simulation_results \cup portfolio_results_tbl \cup simulation_summary

\* one record per run id and per (portfolio, horizon); every result row
\* carries the id of a run record; a finished batch has a record for every
\* (portfolio, horizon)
RunRecordsInOrder ==
    /\ \A r, q \in simulation_runs :
          (\/ r.run_id = q.run_id
           \/ /\ r.portfolio_type = q.portfolio_type
              /\ r.time_horizon_years = q.time_horizon_years) => r = q
    /\ RunIdsOf(ResultTables) \subseteq RunIdsOf(simulation_runs)
    /\ pc = "done" =>
          \A p \in DOMAIN Portfolios : \A h \in DOMAIN TIME_HORIZONS :
             \E r \in simulation_runs :
                /\ r.portfolio_type = Portfolios[p].type
                /\ r.time_horizon_years = TIME_HORIZONS[h]
                /\ r.num_simulations = num_simulations

\* C17: run_all_simulations creates one run record per (portfolio,
\* horizon), each with its own run id; a result, portfolio result or
\* summary row is only written with the id of a run record committed in
\* an earlier step; no run record is changed or removed.
C17_OneRunRecordCommittedFirst ==
    /\ []RunRecordsInOrder
    /\ [][/\ simulation_runs \subseteq simulation_runs'
          /\ RunIdsOf(ResultTables' \ ResultTables) \subseteq RunIdsOf(simulation_runs)
         ]_vars

\* the batch is over: four run records, and rows of all three kinds
C17_Witness ==
    /\ pc = "done"
    /\ Cardinality(simulation_runs) = Len(Portfolios) * Len(TIME_HORIZONS)
    /\ \A r \in simulation_runs :
          /\ r.run_id \in RunIdsOf(simulation_results)
          /\ r.run_id \in RunIdsOf(portfolio_results_tbl)
          /\ r.run_id \in RunIdsOf(simulation_summary)

(* ================================================================== *)
(* Properties of one run of the ETL scripts (specification SpecETL)    *)
(* ================================================================== *)
\* the rows transform_all_tickers has been returned so far
LogRows(log) == SumSeq([n \in DOMAIN log |-> log[n].rows])

\* C4: engineer_features returns n - 199 rows of a frame of n bars, n at
\* least the largest window: only the warm-up rows are dropped.
C4_FeatureCountIsBarsMinusWarmup ==
    \A n \in DOMAIN transform_log :
       LET call == transform_log[n]
       IN  call.bars >= LargestWindow =>
              call.features = call.bars - (LargestWindow - 1)

\* C5: a ticker with fewer bars than the largest window gets zero feature
\* rows and no exception; transform_ticker returns 0 for it and writes no
\* row to processed_market_data, and the loop goes on to the next ticker.
C5_ShortSeriesYieldsNoRows ==
    \A n \in DOMAIN transform_log :
       LET call == transform_log[n]
       IN  (0 < call.bars /\ call.bars < LargestWindow) =>
              /\ call.features = 0
              /\ call.outcome = "ok"
              /\ call.rows = 0
              /\ processed_market_data[call.ticker] = {}
              /\ stage = "transform" => eIdx > n
              /\ stage = "finished" => Len(transform_log) = Len(TICKERS_TO_FETCH)

\* a short ticker was transformed and a later one got its rows stored
C5_Witness ==
    \E n, m \in DOMAIN transform_log :
       /\ n < m
       /\ transform_log[n].bars = ShortBars
       /\ transform_log[n].features = 0
       /\ transform_log[m].rows > 0
       /\ processed_market_data[transform_log[m].ticker] # {}

\* C10: both loops visit every ticker of the list in order whatever failed
\* before: a failed ticker adds 0 to the total and changes no table, a
\* ticker that did not fail has its rows stored, and the total is the sum
\* of the rows returned.
C10_FailureAbortsOnlyItsTicker ==
    /\ \A n \in DOMAIN fetch_log :
          LET call == fetch_log[n]
          IN  /\ call.ticker = TICKERS_TO_FETCH[n]
              /\ call.outcome # "ok" =>
                    (call.rows = 0 /\ raw_market_data[call.ticker] = << >>)
              /\ call.outcome = "ok" =>
                    /\ call.rows = SeriesLength(feed[call.ticker])
                    /\ Len(raw_market_data[call.ticker]) = call.rows
    /\ \A n \in DOMAIN transform_log :
          LET call == transform_log[n]
          IN  /\ call.ticker = TICKERS_TO_FETCH[n]
              /\ call.bars = Len(raw_market_data[call.ticker])
              /\ call.outcome # "ok" =>
                    (call.rows = 0 /\ processed_market_data[call.ticker] = {})
              /\ call.outcome = "ok" =>
                    /\ call.rows = call.features
                    /\ Cardinality(processed_market_data[call.ticker]) = call.rows
    /\ stage = "fetch" =>
          /\ Len(fetch_log) = eIdx - 1
          /\ total_rows = LogRows(fetch_log)
    /\ stage \in {"transform", "finished"} =>
          /\ Len(fetch_log) = Len(TICKERS_TO_FETCH)
          /\ total_rows = LogRows(transform_log)
    /\ stage = "transform" => Len(transform_log) = eIdx - 1
    /\ stage = "finished" => Len(transform_log) = Len(TICKERS_TO_FETCH)

FailedThenStored(log) ==
    \E n, m \in DOMAIN log :
       n < m /\ log[n].outcome # "ok" /\ log[m].outcome = "ok" /\ log[m].rows > 0

\* a ticker failed in one of the loops and a later ticker of that loop had
\* its rows stored
C10_Witness ==
    /\ stage = "finished"
    /\ FailedThenStored(fetch_log) \/ FailedThenStored(transform_log)

(* ================================================================== *)
(* Properties of repeated runs (specification SpecRerun)               *)
(* ================================================================== *)
\* the keys of a table are those of different rows
UniqueKeys(rows, key) ==
    Cardinality({r[key] : r \in rows}) = Cardinality(rows)

SeqRows(table) == {table[j] : j \in DOMAIN table}

\* C6: no save removes or changes a stored row or stores a second row
\* for a stored timestamp (date), each table holds one row per key, and
\* from the second run on, where every offered key is stored already, no
\* save changes a table at all.
C6_RepeatedSaveIsNoOp ==
    [][\A t \in Tickers :
          /\ Len(raw_market_data'[t]) >= Len(raw_market_data[t])
          /\ SubSeq(raw_market_data'[t], 1, Len(raw_market_data[t]))
                = raw_market_data[t]
          /\ UniqueKeys(SeqRows(raw_market_data'[t]), "timestamp")
          /\ Len(raw_market_data'[t]) = Cardinality(SeqRows(raw_market_data'[t]))
          /\ processed_market_data[t] \subseteq processed_market_data'[t]
          /\ UniqueKeys(processed_market_data'[t], "date")
          /\ runs > 1 =>
                /\ raw_market_data'[t] = raw_market_data[t]
                /\ processed_market_data'[t] = processed_market_data[t]
      ]_vars

\* the second run has offered the first ticker bars with re-adjusted
\* prices for the stored timestamps, and has processed it again: no row
\* was inserted and the stored bars are those of the first run
C6_Witness ==
    /\ runs = 2
    /\ revision = 1
    /\ transform_log # << >>
    /\ fetch_log[1].outcome = "ok"
    /\ fetch_log[1].rows = 0
    /\ transform_log[1].rows = 0
    /\ transform_log[1].features > 0
    /\ raw_market_data[TICKERS_TO_FETCH[1]] =
          convert(fetch_data(feed[TICKERS_TO_FETCH[1]], 0))
    /\ raw_market_data[TICKERS_TO_FETCH[1]] #
          convert(fetch_data(feed[TICKERS_TO_FETCH[1]], revision))

(* ================================================================== *)
(* Properties of single calls (specification SpecCalls)                *)
(* ================================================================== *)
\* C11: after a call of engineer_features, returned or raised, the frame
\* the caller passed has the columns, rows and values it had before.
C11_EngineerFeaturesLeavesInput ==
    (fn = "engineer_features" /\ returned) => arg_after = arg

\* the frames of the same columns that have the first i rows of df
AgreeingFrames(df, i) ==
    { other \in FrameInputs :
         /\ other.columns = df.columns
         /\ Len(other.rows) >= i
         /\ SubSeq(other.rows, 1, i) = SubSeq(df.rows, 1, i) }

\* C12: the columns engineer_features computes for row i, and whether
\* dropna() drops the row, are the same for every frame that has the same
\* rows up to row i, whatever its later rows are.
C12_NoLookAhead ==
    (fn = "engineer_features" /\ returned /\ ~out.raised) =>
       \A i \in DOMAIN arg.rows :
          \A other \in AgreeingFrames(arg, i) :
             /\ FeatureRow(DatedRows(other), i) = FeatureRow(DatedRows(arg), i)
             /\ RowHasNaN(DatedRows(other), i) = RowHasNaN(DatedRows(arg), i)

\* a full frame was engineered, and another frame has its first 200 rows
\* and another last row: row 200 is kept in both
C12_Witness ==
    /\ fn = "engineer_features"
    /\ returned
    /\ Len(arg.rows) > LargestWindow
    /\ \E other \in AgreeingFrames(arg, LargestWindow) :
          /\ other.rows # arg.rows
          /\ ~RowHasNaN(DatedRows(other), LargestWindow)
          /\ ~RowHasNaN(DatedRows(arg), LargestWindow)

\* C13: load_historical_data raises whenever the frame it would return
\* has no defined return; a frame it returns has one.
C13_NoEmptyReturnSeries ==
    (fn = "load_historical_data" /\ returned /\ ~out.raised) =>
       ReturnsOf(out.df) # << >>

\* C14: where compute_rsi has period price changes behind it and no close
\* fell so far (the smoothed average loss is 0), the RSI is 100.
C14_RsiIsHundredWithoutLoss ==
    (fn = "compute_rsi" /\ returned) =>
       \A i \in DOMAIN out :
          (i >= arg.period + 1 /\ LossSum(SeriesRows(arg.series), i) = 0) =>
             out[i] = 100

\* simulate_single_path was called with annual_mean = 0 and annual_std = 0
ZeroDriftCall ==
    /\ fn = "simulate_single_path"
    /\ returned
    /\ arg.annual_mean = 0
    /\ arg.annual_std = 0

FetchDataOver == floc \in {"returned", "raised", "converted"}

\* C18: fetch_data always terminates (after a failure it resumes from the
\* date of the last bar received, the retries are bounded, a failure
\* before any bar is re-raised at once): every call is eventually over.
C18_FetchDataTerminates == <>FetchDataOver

\* the timestamps of a sequence of bars
Timestamps(bars) == { bars[i].timestamp : i \in DOMAIN bars }

\* C19: whatever failed and was resumed inside fetch_data, the table
\* convert makes of the bars has its timestamps unique and ascending, and
\* holds every delivered bar (every timestamp appended to aggs) once, as
\* it was delivered first.
C19_ConvertedBarsUniqueAscending ==
    floc = "converted" =>
       /\ \A i, j \in DOMAIN out : i < j => out[i].timestamp < out[j].timestamp
       /\ Timestamps(out) = Timestamps(aggs)
       /\ \A i \in DOMAIN out :
             \E n \in DOMAIN aggs :
                /\ out[i] = aggs[n]
                /\ \A m \in 1 .. n - 1 : aggs[m].timestamp # out[i].timestamp

\* a call that failed part-way, resumed, got the last bar again with
\* another price, and was converted to a table of two or more bars
C19_Witness ==
    /\ floc = "converted"
    /\ Len(out) >= 2
    /\ \E m, n \in DOMAIN aggs :
          /\ m < n
          /\ aggs[m].timestamp = aggs[n].timestamp
          /\ aggs[m].close # aggs[n].close

====
